---- MODULE Spec2Model ----
(***************************************************************************)
(* State-machine model of slack_user_channel_compare.py: one run of        *)
(* compare_user_channels(email_1, email_2) against a remote API whose      *)
(* answers are chosen nondeterministically.                                *)
(*                                                                         *)
(* Each API call is one action: the request, the answer and everything the *)
(* code does with the answer up to the next request or, after the last     *)
(* membership answer, up to the end of the run.  `trace` is the            *)
(* sequence of externally visible events of the run (requests, answers,    *)
(* printed lines, sleeps) in program order.                                *)
(*                                                                         *)
(* Strings that the code orders (channel names) and parses (Retry-After)   *)
(* are sequences of code points / decimal digits.  {user_name_k} in        *)
(* printed lines is represented by the position k of the user.  The tqdm   *)
(* progress bar is not part of the trace.  `pages` remembers, for the      *)
(* get_channel_ids call in progress, the response_metadata of each page    *)
(* received and which ids the pages have listed.                           *)
(***************************************************************************)
EXTENDS Integers, Sequences, FiniteSets

\* ---------------------------------------------------------------- bounds
MaxPages == 2       \* the listing ends (no cursor, or error) within MaxPages answers
MaxPageLen == 1     \* channels per page
MaxRetries == 2     \* rate-limit answers to membership queries in one run

\* ------------------------------------------------------ environment values
None == "<None>"
UserIds == {"U1", "U2"}
\* the two emails belong to two users: ids are opaque to the code, so U1 and U2
\* stand for any two ids
FirstUserIds == {"U1"}
SecondUserIds == {"U2"}
ChannelIds == {"C1", "C2"}
Alpha == <<65, 108, 112, 104, 97>>
Zeta == <<90, 101, 116, 97>>
ChannelNames == {Alpha, Zeta}
ErrorCodes == {"ratelimited", "invalid_auth"}
\* response_metadata of a list answer: a dict with or without 'next_cursor'
Metadatas == {<<>>, <<<<"next_cursor", "">>>>, <<<<"next_cursor", "dGVhbQ">>>>}
\* headers of an error answer: a dict with or without 'Retry-After'
RetryAfterKey == "Retry-After"
HeaderSets == {<<>>, <<<<RetryAfterKey, <<1, 0>>>>>>}
Channels == [id : ChannelIds, name : ChannelNames, is_private : BOOLEAN, is_archived : BOOLEAN]

RECURSIVE SeqsUpTo(_, _)
SeqsUpTo(S, n) ==
    IF n = 0 THEN {<<>>}
    ELSE LET shorter == SeqsUpTo(S, n - 1)
         IN  shorter \cup {Append(q, x) : q \in {r \in shorter : Len(r) = n - 1}, x \in S}

VARIABLES pc, user_id_1, user_id_2, all_channels, public_channel_count,
          private_channel_count, cursor, pages, idx, attempts,
          user_1_channels, user_2_channels, only_in_user_1, only_in_user_2, trace

vars == <<pc, user_id_1, user_id_2, all_channels, public_channel_count,
          private_channel_count, cursor, pages, idx, attempts,
          user_1_channels, user_2_channels, only_in_user_1, only_in_user_2, trace>>

\* ------------------------------------------------------------ trace events
\* k: "call" | "ok" | "error" | "print" | "sleep";  a: API method or message;
\* b: channel id, user id or cursor;  e: an error code;  n: a number;
\* s: a channel name;  m: a member list;  h: the headers of an error answer
E(k, a, b, e, n, s, m, h) ==
    [k |-> k, a |-> a, b |-> b, e |-> e, n |-> n, s |-> s, m |-> m, h |-> h]
Call(a, b) == E("call", a, b, "", 0, <<>>, {}, <<>>)
Ok(a, b, m) == E("ok", a, b, "", 0, <<>>, m, <<>>)
Err(a, code, h) == E("error", a, "", code, 0, <<>>, {}, h)
Out(a, b, n) == E("print", a, b, "", n, <<>>, {}, <<>>)
OutError(a, b, code, n) == E("print", a, b, code, n, <<>>, {}, <<>>)
OutName(s) == E("print", "- name", "", "", 0, s, {}, <<>>)
Sleep(n) == E("sleep", "", "", "", n, <<>>, {}, <<>>)

\* ------------------------------------------------------------ Python values
\* truth value of `not x` for None and strings
Falsy(x) == x = None \/ x = ""

\* dict.get(key, default) on a dict given as a sequence of <<key, value>>
DictHas(d, key) == \E i \in 1..Len(d) : d[i][1] = key
DictGet(d, key, default) ==
    IF DictHas(d, key) THEN d[CHOOSE i \in 1..Len(d) : d[i][1] = key][2] ELSE default

\* d[key] = value: an existing key keeps its position, a new key goes last
DictSet(d, key, value) ==
    IF DictHas(d, key)
    THEN [i \in 1..Len(d) |-> IF d[i][1] = key THEN <<key, value>> ELSE d[i]]
    ELSE Append(d, <<key, value>>)

DictKeys(d) == {d[i][1] : i \in 1..Len(d)}

\* int(s) for a string of decimal digits
RECURSIVE IntOf(_)
IntOf(digits) ==
    IF Len(digits) = 0 THEN 0
    ELSE 10 * IntOf(SubSeq(digits, 1, Len(digits) - 1)) + digits[Len(digits)]

\* variant of RetryAfter: the header is not read, the wait is always the default
RetryAfter_HeaderIgnored(headers) == 1

\* retry_after = int(e.response.headers.get('Retry-After', 1))
RetryAfter(headers) == IntOf(DictGet(headers, RetryAfterKey, <<1>>))

\* sorted(names): ascending by code point, a proper prefix first
LexLess(a, b) ==
    \E i \in 1..(Len(a) + 1) :
        /\ \A j \in 1..(i - 1) : j <= Len(b) /\ a[j] = b[j]
        /\ \/ i = Len(a) + 1 /\ Len(b) >= i
           \/ i <= Len(a) /\ i <= Len(b) /\ a[i] < b[i]

RECURSIVE Insert(_, _)
Insert(sorted, x) ==
    IF sorted = <<>> THEN <<x>>
    ELSE IF LexLess(x, Head(sorted)) THEN <<x>> \o sorted
    ELSE <<Head(sorted)>> \o Insert(Tail(sorted), x)

\* variant of Sorted: the list is printed as built, sorted() is not applied
Sorted_NotApplied(list) == list

RECURSIVE Sorted(_)
Sorted(list) == IF list = <<>> THEN <<>> ELSE Insert(Sorted(Tail(list)), Head(list))

\* [all_channels[channel_id] for channel_id in ids]
RECURSIVE NamesOf(_, _)
NamesOf(d, ids) ==
    IF ids = {} THEN <<>>
    ELSE LET id == CHOOSE x \in ids : TRUE
         IN  <<DictGet(d, id, None)>> \o NamesOf(d, ids \ {id})

\* ------------------------------------------------------------------- Init
NoPages == [metadata |-> <<>>, active |-> {}, archived |-> {}]

Init ==
    /\ pc = "lookup1"
    /\ user_id_1 = None
    /\ user_id_2 = None
    /\ all_channels = <<>>
    /\ public_channel_count = 0
    /\ private_channel_count = 0
    /\ cursor = None
    /\ pages = NoPages
    /\ idx = 1
    /\ attempts = 0
    /\ user_1_channels = {}
    /\ user_2_channels = {}
    /\ only_in_user_1 = {}
    /\ only_in_user_2 = {}
    /\ trace = <<>>

\* ----------------------------------------------------- get_user_id_by_email
\* the events of one get_user_id_by_email call and the id it returns
LookupOk(n, id) ==
    <<Out("Looking up user ID for email", "", n), Call("users.lookupByEmail", ""),
      Ok("users.lookupByEmail", id, {}), Out("User ID for", id, n)>>
\* variant of LookupFailed: the except branch returns without printing
LookupFailed_Silent(n, code) ==
    <<Out("Looking up user ID for email", "", n), Call("users.lookupByEmail", ""),
      Err("users.lookupByEmail", code, <<>>)>>

LookupFailed(n, code) ==
    <<Out("Looking up user ID for email", "", n), Call("users.lookupByEmail", ""),
      Err("users.lookupByEmail", code, <<>>), OutError("Error fetching user ID for email", "", code, n)>>

\* user_id_1, user_name_1 = get_user_id_by_email(email_1)
GetUserIdByEmail1 ==
    /\ pc = "lookup1"
    /\ \/ \E id \in FirstUserIds :
            /\ user_id_1' = id
            /\ trace' = trace \o <<Out("Comparing channels for", "", 0)>> \o LookupOk(1, id)
       \/ \E code \in ErrorCodes :
            /\ user_id_1' = None
            /\ trace' = trace \o <<Out("Comparing channels for", "", 0)>> \o LookupFailed(1, code)
    /\ pc' = "lookup2"
    /\ UNCHANGED <<user_id_2, all_channels, public_channel_count, private_channel_count,
                   cursor, pages, idx, attempts, user_1_channels, user_2_channels,
                   only_in_user_1, only_in_user_2>>

\* variant of GetUserIdByEmail2: the second lookup is made only when the first
\* one succeeded
GetUserIdByEmail2_SkippedAfterFailure ==
    /\ pc = "lookup2"
    /\ IF Falsy(user_id_1)
       THEN /\ user_id_2' = None
            /\ trace' = trace
       ELSE \/ \E id \in SecondUserIds :
                 /\ user_id_2' = id
                 /\ trace' = trace \o LookupOk(2, id)
            \/ \E code \in ErrorCodes :
                 /\ user_id_2' = None
                 /\ trace' = trace \o LookupFailed(2, code)
    /\ pc' = "check"
    /\ UNCHANGED <<user_id_1, all_channels, public_channel_count, private_channel_count,
                   cursor, pages, idx, attempts, user_1_channels, user_2_channels,
                   only_in_user_1, only_in_user_2>>

\* user_id_2, user_name_2 = get_user_id_by_email(email_2)
GetUserIdByEmail2 ==
    /\ pc = "lookup2"
    /\ \/ \E id \in SecondUserIds :
            /\ user_id_2' = id
            /\ trace' = trace \o LookupOk(2, id)
       \/ \E code \in ErrorCodes :
            /\ user_id_2' = None
            /\ trace' = trace \o LookupFailed(2, code)
    /\ pc' = "check"
    /\ UNCHANGED <<user_id_1, all_channels, public_channel_count, private_channel_count,
                   cursor, pages, idx, attempts, user_1_channels, user_2_channels,
                   only_in_user_1, only_in_user_2>>

\* variant of MissingUserId: `and` in place of `or`
MissingUserId_And(id1, id2) == Falsy(id1) /\ Falsy(id2)

\* if not user_id_1 or not user_id_2
MissingUserId(id1, id2) == Falsy(id1) \/ Falsy(id2)

\* the check of the two ids; on success the entry into get_channel_ids
CheckUserIds ==
    /\ pc = "check"
    /\ IF MissingUserId(user_id_1, user_id_2)
       THEN /\ trace' = Append(trace, Out("Unable to retrieve user IDs for comparison.", "", 0))
            /\ pc' = "done"
       ELSE /\ trace' = Append(trace, Out("Fetching all non-archived channel IDs", "", 0))
            /\ pc' = "list"
    /\ all_channels' = <<>>
    /\ public_channel_count' = 0
    /\ private_channel_count' = 0
    /\ cursor' = None
    /\ UNCHANGED <<user_id_1, user_id_2, pages, idx, attempts, user_1_channels, user_2_channels,
                   only_in_user_1, only_in_user_2>>

\* ---------------------------------------------------------- get_channel_ids
\* variant of StoreChannels: is_archived is not tested, every listed channel is stored
RECURSIVE StoreChannels_ArchivedKept(_, _)
StoreChannels_ArchivedKept(st, channels) ==
    IF channels = <<>> THEN st
    ELSE LET channel == Head(channels)
             next == <<DictSet(st[1], channel.id, channel.name),
                       IF channel.is_private THEN st[2] ELSE st[2] + 1,
                       IF channel.is_private THEN st[3] + 1 ELSE st[3]>>
         IN  StoreChannels_ArchivedKept(next, Tail(channels))

\* the for loop over the channels of one page; st = <<all_channels, public, private>>
RECURSIVE StoreChannels(_, _)
StoreChannels(st, channels) ==
    IF channels = <<>> THEN st
    ELSE LET channel == Head(channels)
             next == IF ~channel.is_archived
                     THEN <<DictSet(st[1], channel.id, channel.name),
                            IF channel.is_private THEN st[2] ELSE st[2] + 1,
                            IF channel.is_private THEN st[3] + 1 ELSE st[3]>>
                     ELSE st
         IN  StoreChannels(next, Tail(channels))

\* what the received pages are remembered by: the response_metadata of each,
\* the ids listed as non-archived and the ids listed as archived
AddPage(received, channels, metadata) ==
    [metadata |-> Append(received.metadata, metadata),
     active |-> received.active \cup
                  {channels[i].id : i \in {j \in 1..Len(channels) : ~channels[j].is_archived}},
     archived |-> received.archived \cup
                  {channels[i].id : i \in {j \in 1..Len(channels) : channels[j].is_archived}}]

\* variant of ChannelsAfterListError: a failed request discards what was collected
ChannelsAfterListError_Discard(collected) == <<>>

\* what get_channel_ids returns after a failed list request: what it has collected
ChannelsAfterListError(collected) == collected

\* variant of LastPage: only an absent cursor ends the loop, an empty one does not
LastPage_EmptyIsCursor(next_cursor) == next_cursor = None

\* if not cursor: break
LastPage(next_cursor) == Falsy(next_cursor)

\* one iteration of the while loop: a list request and its answer
ConversationsList ==
    /\ pc = "list"
    /\ Len(pages.metadata) < MaxPages
    /\ \/ \E channels \in SeqsUpTo(Channels, MaxPageLen), metadata \in Metadatas :
            LET next_cursor == DictGet(metadata, "next_cursor", None)
                st == StoreChannels(<<all_channels, public_channel_count, private_channel_count>>, channels)
            IN  /\ (Len(pages.metadata) + 1 = MaxPages) => Falsy(next_cursor)
                /\ all_channels' = st[1]
                /\ public_channel_count' = st[2]
                /\ private_channel_count' = st[3]
                /\ cursor' = next_cursor
                /\ pages' = AddPage(pages, channels, metadata)
                /\ trace' = trace \o <<Call("conversations.list", cursor),
                                       Ok("conversations.list", "", {})>>
                /\ pc' = IF LastPage(next_cursor) THEN "list_return" ELSE "list"
       \/ \E code \in ErrorCodes :
            /\ trace' = trace \o <<Call("conversations.list", cursor),
                                   Err("conversations.list", code, <<>>),
                                   OutError("Error fetching channels", "", code, 0)>>
            /\ pc' = "list_return"
            /\ all_channels' = ChannelsAfterListError(all_channels)
            /\ UNCHANGED <<public_channel_count, private_channel_count, cursor, pages>>
    /\ UNCHANGED <<user_id_1, user_id_2, idx, attempts, user_1_channels, user_2_channels,
                   only_in_user_1, only_in_user_2>>

\* ------------------------------------------------------ compare_user_channels
\* variant of OnlyIn: the other user's channels are not taken away
OnlyIn_NotSubtracted(mine, other) == mine

\* only_in_user_1 = channels_user_1 - channels_user_2 (and the converse)
OnlyIn(mine, other) == mine \ other

\* the lines printed for one user's difference set
RECURSIVE NameLines(_)
NameLines(names) ==
    IF names = <<>> THEN <<>> ELSE <<OutName(Head(names))>> \o NameLines(Tail(names))

\* variant of Section: the heading is printed without testing the set
Section_NoTest(n, only) ==
    <<Out("Channels only in", "", n)>> \o NameLines(Sorted(NamesOf(all_channels, only)))

\* if only_in_user_n: heading and sorted names, else the none-exclusive line
Section(n, only) ==
    IF only # {}
    THEN <<Out("Channels only in", "", n)>> \o NameLines(Sorted(NamesOf(all_channels, only)))
    ELSE <<Out("No channels are exclusive to", "", n)>>

\* what compare_user_channels prints once the scan has returned the two sets
ReportLines(channels_user_1, channels_user_2) ==
    <<Out("is part of channels", "", Cardinality(channels_user_1)),
      Out("is part of channels", "", Cardinality(channels_user_2)),
      Out("Comparing channel memberships...", "", 0)>>
        \o Section(1, OnlyIn(channels_user_1, channels_user_2))
        \o Section(2, OnlyIn(channels_user_2, channels_user_1))

\* the rest of an iteration of the for loop of get_users_channel_ids: go on to
\* the channel at next_idx or, when the loop is exhausted, return the two sets
\* to compare_user_channels, which prints the report and ends
LoopStep(events, set_1, set_2, next_idx, next_attempts) ==
    /\ user_1_channels' = set_1
    /\ user_2_channels' = set_2
    /\ idx' = next_idx
    /\ attempts' = next_attempts
    /\ IF next_idx > Len(all_channels)
       THEN /\ trace' = trace \o events \o ReportLines(set_1, set_2)
            /\ only_in_user_1' = OnlyIn(set_1, set_2)
            /\ only_in_user_2' = OnlyIn(set_2, set_1)
            /\ pc' = "done"
       ELSE /\ trace' = trace \o events
            /\ UNCHANGED <<only_in_user_1, only_in_user_2>>
            /\ pc' = "scan"

\* the end of get_channel_ids and the entry into get_users_channel_ids.  The
\* numbers on the "Public channels" and "Private channels" lines are the values
\* of the two counters in this state; the locals of get_channel_ids end here.
ChannelIdsReturn ==
    /\ pc = "list_return"
    /\ LoopStep(<<Out("Total channels found", "", Len(all_channels)),
                  Out("Public channels", "", 0),
                  Out("Private channels", "", 0),
                  Out("Fetching channel membership for both users...", "", 0)>>,
                {}, {}, 1, 0)
    /\ pages' = NoPages
    /\ public_channel_count' = 0
    /\ private_channel_count' = 0
    /\ cursor' = None
    /\ UNCHANGED <<user_id_1, user_id_2, all_channels>>

\* ---------------------------------------------------- get_users_channel_ids
\* variant of OnMembersError: the else branch has no break, every error is retried
OnMembersError_NoBreak(code) == "retry"

\* what the except branch does with an error code
OnMembersError(code) == IF code = "ratelimited" THEN "retry" ELSE "skip"

\* variant of AddIfMember: the user's id is added in place of the channel's
AddIfMember_AddsUserId(set, user_id, members, channel_id) ==
    IF user_id \in members THEN set \cup {user_id} ELSE set

\* variant of AddIfMember: the channel is added when the answer has any member
AddIfMember_AnyMember(set, user_id, members, channel_id) ==
    IF members # {} THEN set \cup {channel_id} ELSE set

\* the two membership tests of a successful answer
AddIfMember(set, user_id, members, channel_id) ==
    IF user_id \in members THEN set \cup {channel_id} ELSE set

\* the events of an iteration whose query succeeded: the try block, with the
\* fixed pause before the break
EvaluatedEvents(channel_id, members) ==
    <<Call("conversations.members", channel_id),
      Ok("conversations.members", channel_id, members),
      Sleep(1)>>

\* the events of an iteration whose query was rate-limited: the if branch of
\* the except block
RetriedEvents(channel_id, code, headers) ==
    <<Call("conversations.members", channel_id),
      Err("conversations.members", code, headers),
      Out("Rate-limited. Retrying after", "", RetryAfter(headers)),
      Sleep(RetryAfter(headers))>>

\* variant of SkippedEvents: the fixed pause is after the try statement, so it
\* also follows a skipped channel
SkippedEvents_ThenPause(channel_id, code, headers) ==
    <<Call("conversations.members", channel_id),
      Err("conversations.members", code, headers),
      OutError("Error fetching channel members for channel", channel_id, code, 0),
      Sleep(1)>>

\* the events of an iteration whose query failed otherwise: the else branch
SkippedEvents(channel_id, code, headers) ==
    <<Call("conversations.members", channel_id),
      Err("conversations.members", code, headers),
      OutError("Error fetching channel members for channel", channel_id, code, 0)>>

\* the rate-limit answers that membership queries have had so far in this run
RateLimited ==
    Cardinality({i \in 1..Len(trace) : /\ trace[i].k = "error"
                                       /\ trace[i].a = "conversations.members"
                                       /\ trace[i].e = "ratelimited"})

\* one iteration of the while loop for the channel at idx: a membership request
\* and its answer
ConversationsMembers ==
    /\ pc = "scan"
    /\ idx <= Len(all_channels)
    /\ attempts <= MaxRetries
    /\ LET channel_id == all_channels[idx][1]
       IN \/ \E members \in SUBSET UserIds :
               LoopStep(EvaluatedEvents(channel_id, members),
                        AddIfMember(user_1_channels, user_id_1, members, channel_id),
                        AddIfMember(user_2_channels, user_id_2, members, channel_id),
                        idx + 1, 0)
          \/ \E code \in ErrorCodes, headers \in HeaderSets :
               /\ code = "ratelimited" => RateLimited < MaxRetries
               /\ code # "ratelimited" => headers = <<>>
               /\ IF OnMembersError(code) = "retry"
                  THEN LoopStep(RetriedEvents(channel_id, code, headers),
                                user_1_channels, user_2_channels, idx, attempts + 1)
                  ELSE LoopStep(SkippedEvents(channel_id, code, headers),
                                user_1_channels, user_2_channels, idx + 1, 0)
    /\ UNCHANGED <<user_id_1, user_id_2, all_channels, public_channel_count,
                   private_channel_count, cursor, pages>>

Next ==
    \/ GetUserIdByEmail1
    \/ GetUserIdByEmail2
    \/ CheckUserIds
    \/ ConversationsList
    \/ ChannelIdsReturn
    \/ ConversationsMembers

Spec == Init /\ [][Next]_vars

\* a run keeps executing: the program is one thread that is never suspended
FairSpec == Spec /\ WF_vars(Next)

\* ------------------------------------------- the report on its own (lines 137-161)
\* compare_user_channels from the return of get_users_channel_ids on, started
\* with any channel map over three ids and three names and any two sets of its
\* keys
Mid == <<109, 105, 100>>
ReportChannelIds == <<"C1", "C2", "C3">>
ReportNames == {Alpha, Zeta, Mid}

ReportInit ==
    /\ pc = "report"
    /\ user_id_1 = "U1"
    /\ user_id_2 = "U2"
    /\ \E names \in [1..Len(ReportChannelIds) -> ReportNames] :
          all_channels = [i \in 1..Len(ReportChannelIds) |-> <<ReportChannelIds[i], names[i]>>]
    /\ public_channel_count = 0
    /\ private_channel_count = 0
    /\ cursor = None
    /\ pages = NoPages
    /\ idx = Len(ReportChannelIds) + 1
    /\ attempts = 0
    /\ user_1_channels \in SUBSET {ReportChannelIds[i] : i \in 1..Len(ReportChannelIds)}
    /\ user_2_channels \in SUBSET {ReportChannelIds[i] : i \in 1..Len(ReportChannelIds)}
    /\ only_in_user_1 = {}
    /\ only_in_user_2 = {}
    /\ trace = <<>>

\* the counts, the two differences and the two sections
CompareReport ==
    /\ pc = "report"
    /\ LoopStep(<<>>, user_1_channels, user_2_channels, idx, attempts)
    /\ UNCHANGED <<user_id_1, user_id_2, all_channels, public_channel_count,
                   private_channel_count, cursor, pages>>

ReportNext == CompareReport

ReportSpec == ReportInit /\ [][ReportNext]_vars

TypeOK ==
    /\ pc \in {"lookup1", "lookup2", "check", "list", "list_return", "scan", "done"}
    /\ user_id_1 \in UserIds \cup {None}
    /\ user_id_2 \in UserIds \cup {None}
    /\ user_1_channels \subseteq ChannelIds
    /\ user_2_channels \subseteq ChannelIds
    /\ only_in_user_1 \subseteq ChannelIds
    /\ only_in_user_2 \subseteq ChannelIds
    /\ Len(pages.metadata) <= MaxPages
    /\ attempts \in 0..(MaxRetries + 1)
    /\ idx \in 1..(Len(all_channels) + 1)

\* ================================================================ properties
\* positions in the trace
Pos == 1..Len(trace)
IsCall(i, method) == trace[i].k = "call" /\ trace[i].a = method
\* the membership requests for channel c; the answer to a request at i is at i + 1
MemberCalls(c) == {i \in Pos : IsCall(i, "conversations.members") /\ trace[i].b = c}
AllMemberCalls == {i \in Pos : IsCall(i, "conversations.members")}
RateLimitedCalls(c) ==
    {i \in MemberCalls(c) : trace[i + 1].k = "error" /\ trace[i + 1].e = "ratelimited"}
SucceededCalls(c) == {i \in MemberCalls(c) : trace[i + 1].k = "ok"}
FailedCalls(c) ==
    {i \in MemberCalls(c) : trace[i + 1].k = "error" /\ trace[i + 1].e # "ratelimited"}
ListCalls == {i \in Pos : IsCall(i, "conversations.list")}
LookupCalls == {i \in Pos : IsCall(i, "users.lookupByEmail")}
Printed(message) == {i \in Pos : trace[i].k = "print" /\ trace[i].a = message}

\* the wait that the headers of a rate-limit answer suggest, in decimal
RECURSIVE Pow10(_)
Pow10(n) == IF n = 0 THEN 1 ELSE 10 * Pow10(n - 1)
RECURSIVE Weighted(_, _)
Weighted(digits, i) ==
    IF i > Len(digits) THEN 0
    ELSE digits[i] * Pow10(Len(digits) - i) + Weighted(digits, i + 1)
SuggestedWait(headers) ==
    IF \E j \in 1..Len(headers) : headers[j][1] = "Retry-After"
    THEN Weighted(headers[CHOOSE j \in 1..Len(headers) : headers[j][1] = "Retry-After"][2], 1)
    ELSE 1

\* C1: a channel whose membership query is rate-limited k times and then
\* succeeds is queried exactly k + 1 times; every rate-limit answer is followed
\* by a sleep of the wait it suggests (1 without a hint) and then, as the next
\* request, by a query of the same channel; no other channel is queried between
\* two queries of the channel; and the channel is evaluated exactly once and
\* not skipped.
C1_RateLimitRetry ==
    \A c \in ChannelIds :
        LET calls == MemberCalls(c)
            limited == {i \in calls : trace[i + 1].k = "error" /\ trace[i + 1].e = "ratelimited"}
            succeeded == {i \in calls : trace[i + 1].k = "ok"}
            failed == {i \in calls : trace[i + 1].k = "error" /\ trace[i + 1].e # "ratelimited"}
        IN  /\ \A i \in limited :
                  /\ trace[i + 2].k = "print"
                  /\ trace[i + 3] = Sleep(SuggestedWait(trace[i + 1].h))
                  /\ \/ Len(trace) = i + 3 /\ pc = "scan"
                     \/ Len(trace) > i + 3 /\ trace[i + 4] = Call("conversations.members", c)
            /\ \A l \in AllMemberCalls :
                  (\E i \in calls : i < l) /\ (\E j \in calls : l < j) => l \in calls
            /\ succeeded # {} =>
                  /\ Cardinality(calls) = Cardinality(limited) + 1
                  /\ Cardinality(succeeded) = 1
                  /\ failed = {}
                  /\ \A i \in limited : \A j \in succeeded : i < j

\* C1 witness: a channel was rate-limited twice, once with and once without a
\* Retry-After hint, and then evaluated
C1_Witness ==
    \E c \in ChannelIds :
        /\ Cardinality(RateLimitedCalls(c)) = 2
        /\ SucceededCalls(c) # {}
        /\ \E i, j \in RateLimitedCalls(c) : trace[i + 1].h = <<>> /\ trace[j + 1].h # <<>>

\* C2: a membership query that fails with an error other than rate-limit puts
\* the channel in neither set, is not retried, leaves both sets as they were,
\* and is followed by the queries of the remaining channels: the next request
\* is for another channel, and at the end of the scan every channel has been
\* queried.
C2_SkipState ==
    LET keys == DictKeys(all_channels)
        queries == AllMemberCalls
    IN  /\ \A c \in ChannelIds : \A i \in FailedCalls(c) :
              /\ c \notin user_1_channels
              /\ c \notin user_2_channels
              /\ \A j \in queries : j > i => trace[j].b \in keys \ {c}
              /\ pc \in {"scan", "done"}
        /\ pc = "done" /\ ListCalls # {} => \A c \in keys : \E i \in queries : trace[i].b = c
SkipStep ==
    /\ Len(trace') > Len(trace) + 1
    /\ trace'[Len(trace) + 1].k = "call"
    /\ trace'[Len(trace) + 1].a = "conversations.members"
    /\ trace'[Len(trace) + 2].k = "error"
    /\ trace'[Len(trace) + 2].e # "ratelimited"
C2_SkipStep ==
    SkipStep =>
        /\ user_1_channels' = user_1_channels
        /\ user_2_channels' = user_2_channels
        /\ idx' = idx + 1
        /\ pc' = IF idx' > Len(all_channels) THEN "done" ELSE "scan"
C2_ErrorSkipsChannel == [](C2_SkipState) /\ [][C2_SkipStep]_vars

\* C2 witness: the first channel was skipped after an error, the second one was
\* then queried and found to hold the first user
C2_Witness ==
    \E c, d \in ChannelIds :
        /\ c # d
        /\ FailedCalls(c) # {}
        /\ \E i \in FailedCalls(c), j \in SucceededCalls(d) : i < j
        /\ user_1_channels = {d}

\* C3: when one of the two lookups failed, the run prints the
\* unable-to-retrieve message and ends; it issues no channel-list request and no
\* membership request and prints no per-user count and no difference section.
LookupFailures ==
    {i \in Pos : trace[i].k = "error" /\ trace[i].a = "users.lookupByEmail"}
C3_LookupFailureAborts ==
    LookupFailures # {} =>
        /\ ListCalls = {}
        /\ AllMemberCalls = {}
        /\ Printed("is part of channels") = {}
        /\ Printed("Channels only in") = {}
        /\ Printed("No channels are exclusive to") = {}
        /\ Printed("- name") = {}
        /\ pc \in {"lookup2", "check", "done"}
        /\ pc = "done" =>
              /\ Cardinality(Printed("Unable to retrieve user IDs for comparison.")) = 1
              /\ trace[Len(trace)].a = "Unable to retrieve user IDs for comparison."
              /\ Cardinality(LookupCalls) = 2

\* C3 witness: the first lookup succeeded, the second failed, the run has ended
C3_Witness ==
    /\ pc = "done"
    /\ user_id_1 # None
    /\ user_id_2 = None
    /\ LookupFailures # {}

\* the list requests that failed, and the next_cursor of the k-th page received
ListFailures == {i \in ListCalls : trace[i + 1].k = "error"}
PagesReceived == Len(pages.metadata)
NextCursorOf(k) ==
    IF \E j \in 1..Len(pages.metadata[k]) : pages.metadata[k][j][1] = "next_cursor"
    THEN pages.metadata[k][1][2] ELSE None
NoCursor(c) == c = None \/ c = ""
\* the k-th list request of the run
RECURSIVE NthOf(_, _)
NthOf(S, k) ==
    LET least == CHOOSE i \in S : \A j \in S : i <= j
    IN  IF k = 1 THEN least ELSE NthOf(S \ {least}, k - 1)

\* C4: while no list request fails, the first request carries no cursor, every
\* further request carries the next_cursor of the page before it, the loop
\* goes on exactly while the last page has a non-empty next_cursor, and at the
\* return the keys of the map are exactly the ids that the received pages list
\* as non-archived, one entry per id.
C4_PaginationCollectsActive ==
    (pc \in {"list", "list_return"} /\ ListFailures = {}) =>
        /\ Cardinality(ListCalls) = PagesReceived
        /\ \A k \in 1..PagesReceived :
              /\ trace[NthOf(ListCalls, k)].b = IF k = 1 THEN None ELSE NextCursorOf(k - 1)
              /\ k < PagesReceived => ~NoCursor(NextCursorOf(k))
        /\ (pc = "list" /\ PagesReceived > 0) => ~NoCursor(NextCursorOf(PagesReceived))
        /\ pc = "list_return" =>
              /\ NoCursor(NextCursorOf(PagesReceived))
              /\ DictKeys(all_channels) = pages.active
              /\ Cardinality(DictKeys(all_channels)) = Len(all_channels)

\* C4 witness: two pages were received without error, one of them lists an
\* archived channel that no page lists as non-archived, the other a channel
\* that is kept
C4_Witness ==
    /\ pc = "list_return"
    /\ ListFailures = {}
    /\ PagesReceived = 2
    /\ pages.archived \ pages.active # {}
    /\ all_channels # <<>>

\* C5: after a failed list request no further list request is issued; the map
\* returned is exactly the non-archived channels of the pages received before
\* the failure; and the run goes on: the scan queries exactly the channels of
\* that map, which stays as returned, and the report is printed.
C5_FailureState ==
    ListFailures # {} =>
        /\ \A i \in ListFailures : \A j \in ListCalls : j <= i
        /\ pc \in {"list_return", "scan", "done"}
        /\ pc = "list_return" =>
              /\ PagesReceived = Cardinality(ListCalls) - 1
              /\ DictKeys(all_channels) = pages.active
              /\ Cardinality(DictKeys(all_channels)) = Len(all_channels)
        /\ \A i \in AllMemberCalls : trace[i].b \in DictKeys(all_channels)
        /\ pc = "done" => \A c \in DictKeys(all_channels) : MemberCalls(c) # {}
        /\ pc = "done" =>
              /\ Cardinality(Printed("is part of channels")) = 2
              /\ Printed("Unable to retrieve user IDs for comparison.") = {}
C5_MapKept == pc \in {"list_return", "scan"} => all_channels' = all_channels
C5_ListFailureIsPartial == [](C5_FailureState) /\ [][C5_MapKept]_vars

\* C5 witness: the second list request failed after a page with a non-archived
\* channel, and the run has ended with that channel queried
C5_Witness ==
    /\ pc = "done"
    /\ ListFailures # {}
    /\ Cardinality(ListCalls) = 2
    /\ Len(all_channels) = 1
    /\ AllMemberCalls # {}

\* C6: when get_users_channel_ids returns, each user's set is exactly the set
\* of enumerated channels whose query succeeded with that user's id in the
\* member list (so a channel is in both sets iff both ids are in its list), and
\* every enumerated channel has exactly one final outcome, evaluated or skipped.
C6_MembershipSets ==
    pc = "done" /\ ListCalls # {} =>
        LET keys == DictKeys(all_channels)
            \* the member lists of the successful answers for channel c
            lists(c) == {trace[i + 1].m : i \in SucceededCalls(c)}
            holds(c, user_id) == \E m \in lists(c) : user_id \in m
        IN  /\ user_1_channels = {c \in keys : holds(c, user_id_1)}
            /\ user_2_channels = {c \in keys : holds(c, user_id_2)}
            /\ \A c \in keys :
                  /\ Cardinality(SucceededCalls(c) \cup FailedCalls(c)) = 1
                  /\ (c \in user_1_channels /\ c \in user_2_channels) <=>
                        (\E m \in lists(c) : user_id_1 \in m /\ user_id_2 \in m)
            /\ \A c \in ChannelIds \ keys : MemberCalls(c) = {}

\* C6 witness: the scan has returned with one channel holding only the second
\* user and one channel skipped, the two users being different
C6_Witness ==
    /\ pc = "done"
    /\ user_id_1 # user_id_2
    /\ user_1_channels = {}
    /\ Cardinality(user_2_channels) = 1
    /\ \E c \in DictKeys(all_channels) : FailedCalls(c) # {}

\* the lines of one kind printed for user n
PrintedFor(message, n) == {i \in Printed(message) : trace[i].n = n}
ReportPrinted == Printed("Comparing channel memberships...") # {}
Unable == Printed("Unable to retrieve user IDs for comparison.")

\* C7: under the fairness of FairSpec, with a listing that ends within MaxPages
\* answers and at most MaxRetries rate-limit answers, every run reaches the end
\* of compare_user_channels; and a run ends in no other way than after the
\* unable-to-retrieve message or after the two sections of the report.
RunCompleted ==
    \/ /\ trace[Len(trace)].a = "Unable to retrieve user IDs for comparison."
       /\ LookupFailures # {}
    \/ /\ ReportPrinted
       /\ \A n \in {1, 2} :
             PrintedFor("Channels only in", n) \cup PrintedFor("No channels are exclusive to", n) # {}
       /\ trace[Len(trace)].a \in {"- name", "No channels are exclusive to"}
       /\ idx = Len(all_channels) + 1
C7_RunTerminates == <>(pc = "done") /\ [](pc = "done" => RunCompleted)

\* C7 witness: a run has ended after two pages and MaxRetries rate-limit answers
C7_Witness ==
    /\ pc = "done"
    /\ Cardinality(ListCalls) = 2
    /\ Cardinality(UNION {RateLimitedCalls(c) : c \in ChannelIds}) = MaxRetries

\* C8: with A and B the two membership sets of the scan, the two difference
\* sets of the report are A - B and B - A, they are disjoint, and with the
\* intersection of A and B they make up the union of A and B.
C8_DifferencesPartitionUnion ==
    (pc = "done" /\ ReportPrinted) =>
        /\ only_in_user_1 = {c \in user_1_channels : c \notin user_2_channels}
        /\ only_in_user_2 = {c \in user_2_channels : c \notin user_1_channels}
        /\ only_in_user_1 \cap only_in_user_2 = {}
        /\ (user_1_channels \cap user_2_channels) \cup only_in_user_1 \cup only_in_user_2
              = user_1_channels \cup user_2_channels

\* C8 witness: the report was made for two sets that share a channel and
\* differ in another
C8_Witness ==
    /\ pc = "done"
    /\ ReportPrinted
    /\ user_1_channels \cap user_2_channels # {}
    /\ only_in_user_1 \cup only_in_user_2 # {}

\* C9: for each user the report prints the none-exclusive line exactly when the
\* user's set minus the other user's set is empty, and otherwise the heading
\* followed by one name line per channel of the difference; exactly one of the
\* two per user, once.
DifferenceOf(n) ==
    IF n = 1 THEN user_1_channels \ user_2_channels ELSE user_2_channels \ user_1_channels
C9_NoneExclusiveIffEmpty ==
    (pc = "done" /\ ReportPrinted) =>
        \A n \in {1, 2} :
            LET none == PrintedFor("No channels are exclusive to", n)
                heading == PrintedFor("Channels only in", n)
                size == Cardinality(DifferenceOf(n))
            IN  /\ Cardinality(none) = (IF size = 0 THEN 1 ELSE 0)
                /\ Cardinality(heading) = (IF size = 0 THEN 0 ELSE 1)
                /\ \A i \in heading :
                      /\ i + size <= Len(trace)
                      /\ \A j \in (i + 1)..(i + size) : trace[j].a = "- name"
                      /\ i + size < Len(trace) => trace[i + size + 1].a # "- name"
                /\ \A i \in none : i < Len(trace) => trace[i + 1].a # "- name"

\* C9 witness: the first user's set is a non-empty proper subset of the second
\* user's, so the report has the none-exclusive line for the first user and a
\* heading for the second
C9_Witness ==
    /\ pc = "done"
    /\ ReportPrinted
    /\ user_1_channels # {}
    /\ user_1_channels \subseteq user_2_channels
    /\ user_1_channels # user_2_channels
    /\ PrintedFor("No channels are exclusive to", 1) # {}
    /\ PrintedFor("Channels only in", 2) # {}

\* C10: every error answer of a lookup, a list request or a membership request
\* is followed at once, before any further request and before the end of the
\* run, by a printed line that reports it.
ErrorLine(method, code) ==
    IF method = "users.lookupByEmail" THEN "Error fetching user ID for email"
    ELSE IF method = "conversations.list" THEN "Error fetching channels"
    ELSE IF code = "ratelimited" THEN "Rate-limited. Retrying after"
    ELSE "Error fetching channel members for channel"
C10_ErrorsAreLogged ==
    \A i \in Pos :
        trace[i].k = "error" =>
            /\ i < Len(trace)
            /\ trace[i + 1].k = "print"
            /\ trace[i + 1].a = ErrorLine(trace[i].a, trace[i].e)
            /\ trace[i + 1].a # "Rate-limited. Retrying after" => trace[i + 1].e = trace[i].e
            /\ trace[i - 1].k = "call"
            /\ trace[i - 1].a = trace[i].a

\* C10 witness: a run has ended in which a list request, a rate-limited
\* membership request and another membership request failed
C10_Witness ==
    /\ pc = "done"
    /\ ListFailures # {}
    /\ \E c \in ChannelIds : RateLimitedCalls(c) # {} /\ FailedCalls(c) # {}

\* the name that the channel map gives to id c, and the order of two names by
\* code point: at the first position where they differ, or the shorter first
NameOfId(c) == CHOOSE name \in {all_channels[i][2] : i \in 1..Len(all_channels)} :
                   \E i \in 1..Len(all_channels) : all_channels[i] = <<c, name>>
CommonPrefix(a, b) ==
    Cardinality({k \in 1..Len(a) : k <= Len(b) /\ \A j \in 1..k : a[j] = b[j]})
Precedes(a, b) ==
    LET p == CommonPrefix(a, b)
    IN  IF p = Len(a) THEN Len(b) > p
        ELSE IF p = Len(b) THEN FALSE
        ELSE a[p + 1] < b[p + 1]

\* C11: under each heading the lines are the names of the channels of that
\* user's difference set, a name as many times as ids of the set have it, and
\* no line is followed by a line whose name comes before it by code point.
C11_NamesSortedUnderHeading ==
    (pc = "done" /\ ReportPrinted) =>
        \A n \in {1, 2} : \A h \in PrintedFor("Channels only in", n) :
            LET ids == DifferenceOf(n)
                size == Cardinality(ids)
                line(j) == trace[h + j].s
            IN  /\ h + size <= Len(trace)
                /\ \A j \in 1..size : trace[h + j].a = "- name"
                /\ \A j \in 1..size : \E c \in ids : line(j) = NameOfId(c)
                /\ \A c \in ids :
                      Cardinality({j \in 1..size : line(j) = NameOfId(c)})
                          = Cardinality({x \in ids : NameOfId(x) = NameOfId(c)})
                /\ \A j \in 1..(size - 1) : ~Precedes(line(j + 1), line(j))

\* C11 witness: the first user's difference is three channels named Zeta, Alpha
\* and mid, in the order of the map, and they are printed as Alpha, Zeta, mid
C11_Witness ==
    /\ pc = "done"
    /\ Len(all_channels) = 3
    /\ all_channels[1][2] = Zeta /\ all_channels[2][2] = Alpha /\ all_channels[3][2] = Mid
    /\ Cardinality(only_in_user_1) = 3
    /\ \E h \in PrintedFor("Channels only in", 1) :
          /\ h + 3 <= Len(trace)
          /\ trace[h + 1].s = Alpha /\ trace[h + 2].s = Zeta /\ trace[h + 3].s = Mid

\* the lines of the report: the per-user counts and the two sections
ReportPositions ==
    {i \in Pos : /\ trace[i].k = "print"
                 /\ trace[i].a \in {"is part of channels", "Channels only in",
                                    "No channels are exclusive to", "- name"}}
\* every position of S comes before every position of T, the answer to a
\* request at a position of S included
AllBefore(S, T) == \A i \in S : \A j \in T : i + 1 < j

\* C12: the requests of a run are in pipeline order: lookups, then list
\* requests, then membership requests, then the lines of the report; every
\* request has its answer before anything else happens, so at most one is
\* outstanding; and once the lookups are over each of the two emails has been
\* looked up exactly once, the first before the second, whatever the outcomes.
C12_PipelineOrder ==
    LET lookups == LookupCalls
        lists == ListCalls
        members == AllMemberCalls
        report == ReportPositions
        lookupOf(n) == {i \in lookups : trace[i - 1].k = "print" /\ trace[i - 1].n = n}
    IN  /\ AllBefore(lookups, lists \cup members \cup report)
        /\ AllBefore(lists, members \cup report)
        /\ AllBefore(members, report)
        /\ \A i \in Pos :
              /\ trace[i].k = "call" =>
                    /\ i < Len(trace)
                    /\ trace[i + 1].k \in {"ok", "error"}
                    /\ trace[i + 1].a = trace[i].a
              /\ trace[i].k \in {"ok", "error"} =>
                    /\ i > 1
                    /\ trace[i - 1].k = "call"
        /\ pc = "lookup1" => lookups = {}
        /\ pc = "lookup2" => Cardinality(lookupOf(1)) = 1 /\ lookupOf(2) = {}
        /\ pc \notin {"lookup1", "lookup2"} =>
              /\ Cardinality(lookups) = 2
              /\ Cardinality(lookupOf(1)) = 1
              /\ Cardinality(lookupOf(2)) = 1
              /\ AllBefore(lookupOf(1), lookupOf(2))
        /\ lists \cup members \cup report # {} => Cardinality(lookups) = 2

\* C12 witness: a run has ended after two lookups, two list requests, a retried
\* membership request and a second channel, and the report
C12_Witness ==
    /\ pc = "done"
    /\ ReportPrinted
    /\ Cardinality(LookupCalls) = 2
    /\ Cardinality(ListCalls) = 2
    /\ Cardinality(AllMemberCalls) >= 3
    /\ Len(all_channels) = 2

\* C13: a successful membership answer is followed by exactly one pause of 1
\* and then by the next membership request or the end of the scan; a
\* rate-limit answer is followed by its log line and the one sleep of the
\* suggested wait; any other error answer by its log line and no sleep; and
\* there is no sleep anywhere else in the run.
C13_PauseAfterSuccessOnly ==
    LET members == AllMemberCalls
        succeeded == {i \in members : trace[i + 1].k = "ok"}
        limited == {i \in members : trace[i + 1].k = "error" /\ trace[i + 1].e = "ratelimited"}
        failed == {i \in members : trace[i + 1].k = "error" /\ trace[i + 1].e # "ratelimited"}
        sleeps == {i \in Pos : trace[i].k = "sleep"}
        \* the event at position i is a membership request or the first line after the scan
        goesOn(i) == i \in members \/ trace[i].a = "is part of channels"
    IN  /\ \A i \in succeeded :
              /\ trace[i + 2] = Sleep(1)
              /\ IF Len(trace) = i + 2 THEN pc = "scan" ELSE goesOn(i + 3)
        /\ \A i \in limited :
              /\ trace[i + 2].k = "print"
              /\ trace[i + 3] = Sleep(SuggestedWait(trace[i + 1].h))
              /\ IF Len(trace) = i + 3 THEN pc = "scan" ELSE i + 4 \in members
        /\ \A i \in failed :
              /\ trace[i + 2].k = "print"
              /\ IF Len(trace) = i + 2 THEN pc = "scan" ELSE goesOn(i + 3)
        /\ sleeps = {i + 2 : i \in succeeded} \cup {i + 3 : i \in limited}

\* C13 witness: a run has ended in which one channel was rate-limited and then
\* evaluated and the other channel was skipped
C13_Witness ==
    /\ pc = "done"
    /\ \E c, d \in ChannelIds :
          /\ RateLimitedCalls(c) # {}
          /\ SucceededCalls(c) # {}
          /\ FailedCalls(d) # {}
    /\ Cardinality({i \in Pos : trace[i].k = "sleep"}) = 2

\* C14: during the scan and after it each user's set holds only keys of the
\* channel map, so do the two difference sets, every such id has exactly one
\* entry in the map, and every name line of the report is a name of the map.
C14_SetsWithinChannelMap ==
    pc \in {"scan", "done"} =>
        LET keys == DictKeys(all_channels)
            names == {all_channels[i][2] : i \in 1..Len(all_channels)}
        IN  /\ user_1_channels \subseteq keys
            /\ user_2_channels \subseteq keys
            /\ only_in_user_1 \subseteq keys
            /\ only_in_user_2 \subseteq keys
            /\ \A c \in user_1_channels \cup user_2_channels :
                  Cardinality({i \in 1..Len(all_channels) : all_channels[i][1] = c}) = 1
            /\ \A i \in Printed("- name") : trace[i].s \in names

\* C14 witness: a run over two channels has ended with a channel only in the
\* first user's set and its name printed
C14_Witness ==
    /\ pc = "done"
    /\ Len(all_channels) = 2
    /\ only_in_user_1 # {}
    /\ user_2_channels # {}
    /\ Printed("- name") # {}

\* C15: when get_channel_ids is about to print its three totals, the public
\* count plus the private count equals the number of entries of the channel
\* map, whatever pages were received.
C15_CountsSumToTotal ==
    pc = "list_return" =>
        public_channel_count + private_channel_count = Len(all_channels)

====
